---- MODULE Spec2Model ----
(***************************************************************************)
(* Inventory API (inventario-api): products with stock, sales that         *)
(* decrement stock, and the low-stock alert flag.  The database tables     *)
(* products and sales are the state; every service function is an action.  *)
(* Sequential specifications run each handler as one step; the concurrent  *)
(* specifications split a handler at its only interleaving point, between  *)
(* the SELECT that loads the product into the session and db.commit().     *)
(***************************************************************************)
EXTENDS Integers, Sequences, FiniteSets

VARIABLES
    products,   \* table products: id -> row
    sales,      \* table sales, in insertion order (the index is the sale id)
    next_id,    \* next value of the autoincrement products.id
    last,       \* what the last finished sequential request returned
    ses         \* the ORM sessions of the requests in flight

vars == <<products, sales, next_id, last, ses>>

\* ------------------------------------------------------------------ bounds
MaxStock == 2
MaxSales == 2

Usuarios == {"u1", "u2"}
Skus == {"a"}
Sesiones == {"s1", "s2"}
\* the product ids a request may name; the greatest is never given to a row,
\* so that a request can always name a product that does not exist
Ids == {1, 2}
\* the same with two products and two SKUs, for the requests of two owners
IdsDuenos == {1, 2, 3}
SkusDuenos == {"a", "b"}
\* the pagination of a listing: skip (ge=0) and limit (ge=1)
Saltos == {0, 1}
Limites == {1, 2}
\* request bodies carry any integer: one negative value, zero, and the range
Enteros == (0 - 1)..MaxStock
Cantidades == (0 - 1)..(MaxStock + 1)

\* ------------------------------------------------------------ the schemas
\* SaleCreate with cantidad ge=0 in place of gt=0
SaleCreate_ge(producto_id, cantidad) == producto_id > 0 /\ cantidad >= 0

\* SaleCreate: producto_id gt=0, cantidad gt=0
SaleCreate(producto_id, cantidad) == producto_id > 0 /\ cantidad > 0

\* StockUpdate: stock_actual ge=0
StockUpdate(stock_actual) == stock_actual >= 0

\* ProductCreate: stock_actual ge=0, stock_minimo ge=0
ProductCreate(stock_actual, stock_minimo) == stock_actual >= 0 /\ stock_minimo >= 0

\* ProductUpdate: every field that is sent is ge=0
ProductUpdate(update_data) == \A field \in DOMAIN update_data : update_data[field] >= 0

\* --------------------------------------------------------- the Product row
\* Product(...): alerta_enviada takes its column default, False
Product(usuario_id, sku, stock_actual, stock_minimo) ==
    [usuario_id |-> usuario_id, sku |-> sku, stock_actual |-> stock_actual,
     stock_minimo |-> stock_minimo, alerta_enviada |-> FALSE]

\* Product.puede_vender with an off-by-one comparison
puede_vender_laxo(producto, cantidad) == producto.stock_actual + 1 >= cantidad

\* Product.puede_vender with a strict comparison: the last unit cannot be sold
puede_vender_estricto(producto, cantidad) == producto.stock_actual > cantidad

\* Product.puede_vender
puede_vender(producto, cantidad) == producto.stock_actual >= cantidad

\* Product.necesita_alerta without the flag: alerts on every low stock
necesita_alerta_sin_bandera(producto) == producto.stock_actual <= producto.stock_minimo

\* Product.necesita_alerta with a strict comparison: stock equal to the
\* threshold does not count as low
necesita_alerta_estricto(producto) ==
    producto.stock_actual < producto.stock_minimo /\ ~producto.alerta_enviada

\* Product.necesita_alerta
necesita_alerta(producto) ==
    producto.stock_actual <= producto.stock_minimo /\ ~producto.alerta_enviada

\* ------------------------------------------------------------- the results
\* what a request returns: filas and ventas are the ids of the rows of a listing
Respuesta(op, pid, result) ==
    [op |-> op, pid |-> pid, result |-> result, envio |-> "none", notificado |-> FALSE,
     filas |-> {}, ventas |-> <<>>, stock_restante |-> 0]

\* "stock_restante" of the response of POST /sales: the stock of the product
\* of the sale, read after db.commit() and db.refresh(producto)
stock_restante(tabla, producto_id) == tabla[producto_id].stock_actual

\* envio: "none" when enviar_alerta_stock_bajo was not called, else its outcome
Envio(intento, exito) == IF ~intento THEN "none" ELSE IF exito THEN "ok" ELSE "fail"

\* --------------------------------------------------------- registrar_venta
\* registrar_venta without its step 2, the owner check
VentaValidacion_sin_dueno(tabla, usuario, producto_id, cantidad) ==
    IF ~SaleCreate(producto_id, cantidad) THEN "InvalidQuantity"
    ELSE IF producto_id \notin DOMAIN tabla THEN "NotFound"
    ELSE IF ~puede_vender(tabla[producto_id], cantidad) THEN "InsufficientStock"
    ELSE "OK"

\* registrar_venta with steps 2 and 3 exchanged: the stock check before the
\* owner check
VentaValidacion_stock_primero(tabla, usuario, producto_id, cantidad) ==
    IF ~SaleCreate(producto_id, cantidad) THEN "InvalidQuantity"
    ELSE IF producto_id \notin DOMAIN tabla THEN "NotFound"
    ELSE IF ~puede_vender(tabla[producto_id], cantidad) THEN "InsufficientStock"
    ELSE IF tabla[producto_id].usuario_id # usuario THEN "Forbidden"
    ELSE "OK"

\* steps 1-3 of registrar_venta: the validation, on the rows the query sees
VentaValidacion(tabla, usuario, producto_id, cantidad) ==
    IF ~SaleCreate(producto_id, cantidad) THEN "InvalidQuantity"
    ELSE IF producto_id \notin DOMAIN tabla THEN "NotFound"
    ELSE IF tabla[producto_id].usuario_id # usuario THEN "Forbidden"
    ELSE IF ~puede_vender(tabla[producto_id], cantidad) THEN "InsufficientStock"
    ELSE "OK"

\* registrar_venta that undoes the decrement when the alert cannot be sent
VentaEnMemoria_revierte(producto, cantidad, exito) ==
    LET descontado == [producto EXCEPT !.stock_actual = @ - cantidad]
        intento == necesita_alerta(descontado)
    IN  [producto |-> IF intento /\ exito
                      THEN [descontado EXCEPT !.alerta_enviada = TRUE]
                      ELSE IF intento THEN producto ELSE descontado,
         envio |-> Envio(intento, exito),
         notificado |-> intento /\ exito]

\* registrar_venta that sets the flag without looking at what the sender returned
VentaEnMemoria_sin_exito(producto, cantidad, exito) ==
    LET descontado == [producto EXCEPT !.stock_actual = @ - cantidad]
        intento == necesita_alerta(descontado)
    IN  [producto |-> IF intento
                      THEN [descontado EXCEPT !.alerta_enviada = TRUE]
                      ELSE descontado,
         envio |-> Envio(intento, exito),
         notificado |-> intento /\ exito]

\* registrar_venta that alerts only when this sale took the stock from above
\* the threshold to at or below it
VentaEnMemoria_sin_reintento(producto, cantidad, exito) ==
    LET descontado == [producto EXCEPT !.stock_actual = @ - cantidad]
        intento == /\ necesita_alerta(descontado)
                   /\ producto.stock_actual > producto.stock_minimo
    IN  [producto |-> IF intento /\ exito
                      THEN [descontado EXCEPT !.alerta_enviada = TRUE]
                      ELSE descontado,
         envio |-> Envio(intento, exito),
         notificado |-> intento /\ exito]

\* steps 4-6 of registrar_venta on the loaded object: decrement, then the
\* alert; exito is what enviar_alerta_stock_bajo returns if it is called
VentaEnMemoria(producto, cantidad, exito) ==
    LET descontado == [producto EXCEPT !.stock_actual = @ - cantidad]
        intento == necesita_alerta(descontado)
    IN  [producto |-> IF intento /\ exito
                      THEN [descontado EXCEPT !.alerta_enviada = TRUE]
                      ELSE descontado,
         envio |-> Envio(intento, exito),
         notificado |-> intento /\ exito]

\* a commit whose UPDATE is relative, stock_actual = stock_actual + (the
\* change made in the session), instead of the value computed in the session
Flush_relativo(tabla, producto_id, leido, enmem) ==
    [tabla EXCEPT ![producto_id] =
        [@ EXCEPT !.stock_actual = @ + (enmem.stock_actual - leido.stock_actual),
                  !.stock_minimo = IF enmem.stock_minimo # leido.stock_minimo
                                   THEN enmem.stock_minimo ELSE @,
                  !.alerta_enviada = IF enmem.alerta_enviada # leido.alerta_enviada
                                     THEN enmem.alerta_enviada ELSE @]]

\* a commit whose UPDATE has no WHERE clause: the changed columns are written
\* to every row of the table
Flush_sin_where(tabla, producto_id, leido, enmem) ==
    [p \in DOMAIN tabla |->
        [tabla[p] EXCEPT !.stock_actual = IF enmem.stock_actual # leido.stock_actual
                                          THEN enmem.stock_actual ELSE @,
                         !.stock_minimo = IF enmem.stock_minimo # leido.stock_minimo
                                          THEN enmem.stock_minimo ELSE @,
                         !.alerta_enviada = IF enmem.alerta_enviada # leido.alerta_enviada
                                            THEN enmem.alerta_enviada ELSE @]]

\* db.commit(): the UPDATE sets the columns whose value differs from the
\* value the session loaded, and leaves the other columns as the table has them
Flush(tabla, producto_id, leido, enmem) ==
    [tabla EXCEPT ![producto_id] =
        [@ EXCEPT !.stock_actual = IF enmem.stock_actual # leido.stock_actual
                                   THEN enmem.stock_actual ELSE @,
                  !.stock_minimo = IF enmem.stock_minimo # leido.stock_minimo
                                   THEN enmem.stock_minimo ELSE @,
                  !.alerta_enviada = IF enmem.alerta_enviada # leido.alerta_enviada
                                     THEN enmem.alerta_enviada ELSE @]]

\* a Sale row that records one unit whatever the quantity sold
Sale_de_una_unidad(producto_id, cantidad) == [producto_id |-> producto_id, cantidad |-> 1]

\* Sale(producto_id=..., cantidad=...)
Sale(producto_id, cantidad) == [producto_id |-> producto_id, cantidad |-> cantidad]

\* POST /sales, run alone from the query to the commit
RegistrarVenta(usuario, producto_id, cantidad, exito) ==
    LET result == VentaValidacion(products, usuario, producto_id, cantidad)
    IN  /\ IF result # "OK"
           THEN /\ last' = Respuesta("venta", 0, result)
                /\ UNCHANGED <<products, sales>>
           ELSE LET m == VentaEnMemoria(products[producto_id], cantidad, exito)
                IN  /\ Len(sales) < MaxSales
                    /\ products' = Flush(products, producto_id, products[producto_id], m.producto)
                    /\ sales' = Append(sales, Sale(producto_id, cantidad))
                    /\ last' = [Respuesta("venta", producto_id, "OK")
                                   EXCEPT !.envio = m.envio, !.notificado = m.notificado,
                                          !.stock_restante = stock_restante(products', producto_id)]
        /\ UNCHANGED <<next_id, ses>>

\* ---------------------------------------------------------- crear_producto
\* the unique index on products.sku
SkuLibre(tabla, sku) == \A p \in DOMAIN tabla : tabla[p].sku # sku

\* POST /products, while the ids below tope are not used up: the body is
\* validated, then the INSERT hits the unique index or goes through
CrearHasta(tope, usuario, sku, stock_actual, stock_minimo) ==
    /\ IF ~ProductCreate(stock_actual, stock_minimo)
       THEN /\ last' = Respuesta("crear", 0, "InvalidStock")
            /\ UNCHANGED <<products, next_id>>
       ELSE IF ~SkuLibre(products, sku)
       THEN /\ last' = Respuesta("crear", 0, "SkuConflict")
            /\ UNCHANGED <<products, next_id>>
       ELSE /\ next_id < tope
            /\ products' = [p \in DOMAIN products \cup {next_id} |->
                               IF p = next_id
                               THEN Product(usuario, sku, stock_actual, stock_minimo)
                               ELSE products[p]]
            /\ next_id' = next_id + 1
            /\ last' = Respuesta("crear", next_id, "OK")
    /\ UNCHANGED <<sales, ses>>

\* POST /products on a table that holds one product at most
CrearProducto(usuario, sku, stock_actual, stock_minimo) ==
    CrearHasta(Cardinality(Ids), usuario, sku, stock_actual, stock_minimo)

\* -------------------------------------------------------- obtener_producto
\* obtener_producto that filters by Product.id alone
obtener_producto_sin_dueno(tabla, producto_id, usuario) == producto_id \in DOMAIN tabla

\* the query of obtener_producto: the row with that id and that owner, if any
obtener_producto(tabla, producto_id, usuario) ==
    producto_id \in DOMAIN tabla /\ tabla[producto_id].usuario_id = usuario

\* -------------------------------------------------------- actualizar_stock
\* actualizar_stock that forgets to reset the flag when the stock recovers
StockEnMemoria_sin_reset(producto, stock_actual, exito) ==
    LET puesto == [producto EXCEPT !.stock_actual = stock_actual]
    IN  IF necesita_alerta(puesto)
        THEN [producto |-> [puesto EXCEPT !.alerta_enviada = TRUE],
              envio |-> Envio(TRUE, exito)]
        ELSE [producto |-> puesto, envio |-> "none"]

\* actualizar_stock that sends the alert whenever the new stock is low, without
\* looking at the flag
StockEnMemoria_sin_bandera(producto, stock_actual, exito) ==
    LET puesto == [producto EXCEPT !.stock_actual = stock_actual]
    IN  IF puesto.stock_actual > puesto.stock_minimo
        THEN [producto |-> [puesto EXCEPT !.alerta_enviada = FALSE], envio |-> "none"]
        ELSE [producto |-> [puesto EXCEPT !.alerta_enviada = TRUE],
              envio |-> Envio(TRUE, exito)]

\* actualizar_stock on the loaded object: set the stock, then reset the flag
\* or send the alert; the return value of enviar_alerta_stock_bajo is dropped
StockEnMemoria(producto, stock_actual, exito) ==
    LET puesto == [producto EXCEPT !.stock_actual = stock_actual]
    IN  IF puesto.stock_actual > puesto.stock_minimo
        THEN [producto |-> [puesto EXCEPT !.alerta_enviada = FALSE], envio |-> "none"]
        ELSE IF necesita_alerta(puesto)
        THEN [producto |-> [puesto EXCEPT !.alerta_enviada = TRUE],
              envio |-> Envio(TRUE, exito)]
        ELSE [producto |-> puesto, envio |-> "none"]

\* PUT /products/{id}/stock, run alone
ActualizarStock(usuario, producto_id, stock_actual, exito) ==
    /\ IF ~StockUpdate(stock_actual)
       THEN /\ last' = Respuesta("stock", 0, "InvalidStock")
            /\ UNCHANGED products
       ELSE IF ~obtener_producto(products, producto_id, usuario)
       THEN /\ last' = Respuesta("stock", 0, "NotFound")
            /\ UNCHANGED products
       ELSE LET m == StockEnMemoria(products[producto_id], stock_actual, exito)
            IN  /\ products' = Flush(products, producto_id, products[producto_id], m.producto)
                /\ last' = [Respuesta("stock", producto_id, "OK") EXCEPT !.envio = m.envio]
    /\ UNCHANGED <<sales, next_id, ses>>

\* ----------------------------------------------------- actualizar_producto
\* the bodies of PUT /products/{id}: any subset of the two stock fields
UpdateData ==
    UNION {[campos -> Enteros] : campos \in SUBSET {"stock_actual", "stock_minimo"}}

\* the setattr loop of actualizar_producto and the reset that follows it
ProductoEnMemoria(producto, update_data) ==
    LET puesto == [field \in DOMAIN producto |->
                      IF field \in DOMAIN update_data
                      THEN update_data[field] ELSE producto[field]]
    IN  IF "stock_actual" \in DOMAIN update_data
           /\ puesto.stock_actual > puesto.stock_minimo
        THEN [puesto EXCEPT !.alerta_enviada = FALSE]
        ELSE puesto

\* PUT /products/{id}, run alone
ActualizarProducto(usuario, producto_id, update_data) ==
    /\ IF ~ProductUpdate(update_data)
       THEN /\ last' = Respuesta("producto", 0, "InvalidStock")
            /\ UNCHANGED products
       ELSE IF ~obtener_producto(products, producto_id, usuario)
       THEN /\ last' = Respuesta("producto", 0, "NotFound")
            /\ UNCHANGED products
       ELSE /\ products' = Flush(products, producto_id, products[producto_id],
                                 ProductoEnMemoria(products[producto_id], update_data))
            /\ last' = Respuesta("producto", producto_id, "OK")
    /\ UNCHANGED <<sales, next_id, ses>>

\* ------------------------------------------------- GET /products/{id}
\* obtener_detalle_producto: the row that obtener_producto finds, or 404
ObtenerProducto(usuario, producto_id) ==
    /\ IF ~obtener_producto(products, producto_id, usuario)
       THEN last' = Respuesta("obtener", 0, "NotFound")
       ELSE last' = Respuesta("obtener", producto_id, "OK")
    /\ UNCHANGED <<products, sales, next_id, ses>>

\* ------------------------------------------------------- eliminar_producto
\* db.delete(producto) with a relationship declared cascade="all, delete":
\* the sales of the product are deleted with it
Borrado_en_cascada(ventas, producto_id) ==
    [ok |-> TRUE,
     sales |-> SelectSeq(ventas, LAMBDA v : v.producto_id # producto_id)]

\* db.delete(producto); db.commit() as seen by the table sales: Product.sales
\* declares no cascade, so the flush sets producto_id of the product's sales to
\* NULL, the NOT NULL column refuses it and the commit raises
Borrado(ventas, producto_id) ==
    [ok |-> \A i \in 1..Len(ventas) : ventas[i].producto_id # producto_id,
     sales |-> ventas]

\* DELETE /products/{id}, run alone
EliminarProducto(usuario, producto_id) ==
    /\ IF ~obtener_producto(products, producto_id, usuario)
       THEN /\ last' = Respuesta("eliminar", 0, "NotFound")
            /\ UNCHANGED <<products, sales>>
       ELSE LET b == Borrado(sales, producto_id)
            IN  IF ~b.ok
                THEN /\ last' = Respuesta("eliminar", 0, "ServerError")
                     /\ UNCHANGED <<products, sales>>
                ELSE /\ products' = [p \in DOMAIN products \ {producto_id} |-> products[p]]
                     /\ sales' = b.sales
                     /\ last' = Respuesta("eliminar", producto_id, "OK")
    /\ UNCHANGED <<next_id, ses>>

\* ------------------------------------------------------------ the imports
\* the update branch of an import row that arms the flag on a low stock, as
\* actualizar_stock does
FilaEnMemoria_arma(producto, stock_actual, stock_minimo) ==
    LET puesto == [producto EXCEPT !.stock_actual = stock_actual,
                                   !.stock_minimo = stock_minimo]
    IN  IF puesto.stock_actual > puesto.stock_minimo
        THEN [puesto EXCEPT !.alerta_enviada = FALSE]
        ELSE [puesto EXCEPT !.alerta_enviada = TRUE]

\* the update branch of an import row: the two stocks are overwritten, and the
\* flag is reset if the stock is above the threshold; no alert is ever sent
FilaEnMemoria(producto, stock_actual, stock_minimo) ==
    LET puesto == [producto EXCEPT !.stock_actual = stock_actual,
                                   !.stock_minimo = stock_minimo]
    IN  IF puesto.stock_actual > puesto.stock_minimo
        THEN [puesto EXCEPT !.alerta_enviada = FALSE]
        ELSE puesto

\* an import row that overwrites an existing product whatever
\* actualizar_existentes says
ImportarFila_siempre_actualiza(usuario, sku, stock_actual, stock_minimo, actualizar_existentes) ==
    LET existentes == {p \in DOMAIN products :
                          products[p].sku = sku /\ products[p].usuario_id = usuario}
    IN  /\ IF stock_actual < 0 \/ stock_minimo < 0
           THEN /\ last' = Respuesta("importar", 0, "InvalidStock")
                /\ UNCHANGED <<products, next_id>>
           ELSE IF existentes # {}
           THEN LET p == CHOOSE p \in existentes : TRUE
                IN  /\ products' = Flush(products, p, products[p],
                                         FilaEnMemoria(products[p], stock_actual, stock_minimo))
                    /\ last' = Respuesta("importar", p, "OK")
                    /\ UNCHANGED next_id
           ELSE IF ~SkuLibre(products, sku)
           THEN /\ last' = Respuesta("importar", 0, "SkuConflict")
                /\ UNCHANGED <<products, next_id>>
           ELSE /\ next_id < Cardinality(Ids)
                /\ products' = [p \in DOMAIN products \cup {next_id} |->
                                   IF p = next_id
                                   THEN Product(usuario, sku, stock_actual, stock_minimo)
                                   ELSE products[p]]
                /\ next_id' = next_id + 1
                /\ last' = Respuesta("importar", next_id, "OK")
        /\ UNCHANGED <<sales, ses>>

\* one iteration of the loop of importar_desde_excel and of
\* importar_desde_google_sheet: a row is validated, looked up by (sku, owner)
\* and committed on its own, so a file of n rows is n of these steps
ImportarFila(usuario, sku, stock_actual, stock_minimo, actualizar_existentes) ==
    LET existentes == {p \in DOMAIN products :
                          products[p].sku = sku /\ products[p].usuario_id = usuario}
    IN  /\ IF stock_actual < 0 \/ stock_minimo < 0
           THEN /\ last' = Respuesta("importar", 0, "InvalidStock")
                /\ UNCHANGED <<products, next_id>>
           ELSE IF existentes # {} /\ ~actualizar_existentes
           THEN /\ last' = Respuesta("importar", 0, "SkuConflict")
                /\ UNCHANGED <<products, next_id>>
           ELSE IF existentes # {}
           THEN LET p == CHOOSE p \in existentes : TRUE
                IN  /\ products' = Flush(products, p, products[p],
                                         FilaEnMemoria(products[p], stock_actual, stock_minimo))
                    /\ last' = Respuesta("importar", p, "OK")
                    /\ UNCHANGED next_id
           ELSE IF ~SkuLibre(products, sku)
           THEN /\ last' = Respuesta("importar", 0, "SkuConflict")
                /\ UNCHANGED <<products, next_id>>
           ELSE /\ next_id < Cardinality(Ids)
                /\ products' = [p \in DOMAIN products \cup {next_id} |->
                                   IF p = next_id
                                   THEN Product(usuario, sku, stock_actual, stock_minimo)
                                   ELSE products[p]]
                /\ next_id' = next_id + 1
                /\ last' = Respuesta("importar", next_id, "OK")
        /\ UNCHANGED <<sales, ses>>

\* ------------------------------------------------------------ the listings
\* the rows that remain of n rows after .offset(skip).limit(limit)
Pagina(n, skip, limit) ==
    IF n - skip <= 0 THEN 0 ELSE IF n - skip < limit THEN n - skip ELSE limit

\* listar_productos without the filter Product.usuario_id == usuario.id
listar_productos_de_todos(tabla, usuario, skip, limit, stock_bajo) ==
    LET query == {p \in DOMAIN tabla :
                     stock_bajo => tabla[p].stock_actual <= tabla[p].stock_minimo}
    IN  {filas \in SUBSET query :
            Cardinality(filas) = Pagina(Cardinality(query), skip, limit)}

\* listar_productos: the results the query may give. It has no ORDER BY, so
\* offset and limit keep any rows of the filtered set, as many as they allow
listar_productos(tabla, usuario, skip, limit, stock_bajo) ==
    LET query == {p \in DOMAIN tabla :
                     /\ tabla[p].usuario_id = usuario
                     /\ stock_bajo => tabla[p].stock_actual <= tabla[p].stock_minimo}
    IN  {filas \in SUBSET query :
            Cardinality(filas) = Pagina(Cardinality(query), skip, limit)}

\* GET /products
ListarProductos(usuario, skip, limit, stock_bajo) ==
    /\ \E filas \in listar_productos(products, usuario, skip, limit, stock_bajo) :
          last' = [Respuesta("listar", 0, "OK") EXCEPT !.filas = filas]
    /\ UNCHANGED <<products, sales, next_id, ses>>

\* the numbers of a set, greatest first: ORDER BY fecha DESC on sale ids,
\* which grow with fecha
RECURSIVE Descendente(_)
Descendente(S) ==
    IF S = {} THEN <<>>
    ELSE LET m == CHOOSE x \in S : \A y \in S : y <= x
         IN  <<m>> \o Descendente(S \ {m})

\* listar_ventas: the ids of the sales joined to a product of usuario, of
\* producto_id if one is given (0 is no filter: "if producto_id:"), newest
\* first, after offset and limit
listar_ventas(ventas, tabla, usuario, producto_id, skip, limit) ==
    LET query == {i \in 1..Len(ventas) :
                     /\ ventas[i].producto_id \in DOMAIN tabla
                     /\ tabla[ventas[i].producto_id].usuario_id = usuario
                     /\ producto_id # 0 => ventas[i].producto_id = producto_id}
    IN  SubSeq(Descendente(query), skip + 1,
               skip + Pagina(Cardinality(query), skip, limit))

\* GET /sales
ListarVentas(usuario, producto_id, skip, limit) ==
    /\ last' = [Respuesta("ventas", 0, "OK") EXCEPT
                   !.ventas = listar_ventas(sales, products, usuario, producto_id, skip, limit)]
    /\ UNCHANGED <<products, sales, next_id, ses>>

\* the query of obtener_venta: the sale with that id joined to a product of
\* usuario, if any
obtener_venta(ventas, tabla, venta_id, usuario) ==
    /\ venta_id \in 1..Len(ventas)
    /\ ventas[venta_id].producto_id \in DOMAIN tabla
    /\ tabla[ventas[venta_id].producto_id].usuario_id = usuario

\* GET /sales/{id}
ObtenerVenta(usuario, venta_id) ==
    /\ IF ~obtener_venta(sales, products, venta_id, usuario)
       THEN last' = Respuesta("detalle", 0, "NotFound")
       ELSE last' = [Respuesta("detalle", sales[venta_id].producto_id, "OK")
                        EXCEPT !.ventas = <<venta_id>>]
    /\ UNCHANGED <<products, sales, next_id, ses>>

\* ------------------------------------------------------------ the sessions
\* a session that holds no request
SesionLibre ==
    [pc |-> "libre", op |-> "none", pid |-> 0, cantidad |-> 0, result |-> "none",
     envio |-> "none",
     leido |-> Product("u1", "a", 0, 0), enmem |-> Product("u1", "a", 0, 0)]

\* the sales that sessions between their query and their commit will insert
Pendientes == Cardinality({s \in Sesiones : ses[s].pc = "commit" /\ ses[s].op = "venta"})

\* registrar_venta up to the line before db.commit(): the query loads the row
\* as committed now, and everything after it works on that loaded object
VentaLeer(s, usuario, producto_id, cantidad, exito) ==
    LET result == VentaValidacion(products, usuario, producto_id, cantidad)
    IN  /\ ses[s].pc # "commit"
        /\ IF result # "OK"
           THEN ses' = [ses EXCEPT ![s] = [SesionLibre EXCEPT !.pc = "fin",
                                                              !.op = "venta",
                                                              !.result = result]]
           ELSE LET m == VentaEnMemoria(products[producto_id], cantidad, exito)
                IN  /\ Len(sales) + Pendientes < MaxSales
                    /\ ses' = [ses EXCEPT ![s] =
                                  [pc |-> "commit", op |-> "venta", pid |-> producto_id,
                                   cantidad |-> cantidad, result |-> "none",
                                   envio |-> m.envio, leido |-> products[producto_id],
                                   enmem |-> m.producto]]
        /\ UNCHANGED <<products, sales, next_id, last>>

\* db.commit() of registrar_venta: the UPDATE of the product and the INSERT of
\* the sale, in one transaction
VentaCommit(s) ==
    /\ ses[s].pc = "commit"
    /\ ses[s].op = "venta"
    /\ products' = Flush(products, ses[s].pid, ses[s].leido, ses[s].enmem)
    /\ sales' = Append(sales, Sale(ses[s].pid, ses[s].cantidad))
    /\ ses' = [ses EXCEPT ![s].pc = "fin", ![s].result = "OK"]
    /\ UNCHANGED <<next_id, last>>

\* actualizar_stock up to the line before db.commit(): obtener_producto loads
\* the row as committed now, the new stock and the flag are set on the loaded
\* object and the alert, if any, is sent
StockLeer(s, usuario, producto_id, stock_actual, exito) ==
    /\ ses[s].pc # "commit"
    /\ IF ~StockUpdate(stock_actual)
       THEN ses' = [ses EXCEPT ![s] = [SesionLibre EXCEPT !.pc = "fin",
                                                          !.op = "stock",
                                                          !.result = "InvalidStock"]]
       ELSE IF ~obtener_producto(products, producto_id, usuario)
       THEN ses' = [ses EXCEPT ![s] = [SesionLibre EXCEPT !.pc = "fin",
                                                          !.op = "stock",
                                                          !.result = "NotFound"]]
       ELSE LET m == StockEnMemoria(products[producto_id], stock_actual, exito)
            IN  ses' = [ses EXCEPT ![s] =
                           [pc |-> "commit", op |-> "stock", pid |-> producto_id,
                            cantidad |-> 0, result |-> "none",
                            envio |-> m.envio, leido |-> products[producto_id],
                            enmem |-> m.producto]]
    /\ UNCHANGED <<products, sales, next_id, last>>

\* db.commit() of actualizar_stock: the UPDATE of the product
StockCommit(s) ==
    /\ ses[s].pc = "commit"
    /\ ses[s].op = "stock"
    /\ products' = Flush(products, ses[s].pid, ses[s].leido, ses[s].enmem)
    /\ ses' = [ses EXCEPT ![s].pc = "fin", ![s].result = "OK"]
    /\ UNCHANGED <<sales, next_id, last>>

\* ------------------------------------------------------ the specifications
\* the empty database, before any request
Init ==
    /\ products = <<>>
    /\ sales = <<>>
    /\ next_id = 1
    /\ last = Respuesta("none", 0, "none")
    /\ ses = [s \in Sesiones |-> SesionLibre]

\* requests one at a time: the operations that create a product and change
\* its stock, its threshold and its flag
Next ==
    \/ \E u \in Usuarios, sku \in Skus, sa \in Enteros, sm \in Enteros :
          CrearProducto(u, sku, sa, sm)
    \/ \E u \in Usuarios, p \in Ids, q \in Cantidades, exito \in BOOLEAN :
          RegistrarVenta(u, p, q, exito)
    \/ \E u \in Usuarios, p \in Ids, x \in Enteros, exito \in BOOLEAN :
          ActualizarStock(u, p, x, exito)
    \/ \E u \in Usuarios, p \in Ids, d \in UpdateData :
          ActualizarProducto(u, p, d)

Spec == Init /\ [][Next]_vars

\* requests one at a time, every operation on a product: those of Next, the
\* read of one product, its deletion and the rows of an import
NextTodo ==
    \/ Next
    \/ \E u \in Usuarios, p \in Ids : ObtenerProducto(u, p)
    \/ \E u \in Usuarios, p \in Ids : EliminarProducto(u, p)
    \/ \E u \in Usuarios, sku \in Skus, sa \in Enteros, sm \in Enteros, act \in BOOLEAN :
          ImportarFila(u, sku, sa, sm, act)

SpecTodo == Init /\ [][NextTodo]_vars

\* requests one at a time: products are created, sold and restocked, and
\* nothing else touches them (no PUT /products/{id})
NextStock ==
    \/ \E u \in Usuarios, sku \in Skus, sa \in Enteros, sm \in Enteros :
          CrearProducto(u, sku, sa, sm)
    \/ \E u \in Usuarios, p \in Ids, q \in Cantidades, exito \in BOOLEAN :
          RegistrarVenta(u, p, q, exito)
    \/ \E u \in Usuarios, p \in Ids, x \in Enteros, exito \in BOOLEAN :
          ActualizarStock(u, p, x, exito)

SpecStock == Init /\ [][NextStock]_vars

\* concurrent requests: after a product is created, only sales, each in a
\* session of its own, interleaved between query and commit
NextVentas ==
    \/ \E u \in Usuarios, sku \in Skus, sa \in Enteros, sm \in Enteros :
          CrearProducto(u, sku, sa, sm)
    \/ \E s \in Sesiones, u \in Usuarios, p \in Ids, q \in Cantidades, exito \in BOOLEAN :
          VentaLeer(s, u, p, q, exito)
    \/ \E s \in Sesiones : VentaCommit(s)

SpecVentas == Init /\ [][NextVentas]_vars

\* the sessions that serve PUT /products/{id}/stock in SpecCarrera and SpecDos
SesionesDeStock == {"s2"}

\* concurrent requests on one product, created by u1 with threshold 1 and any
\* stock: sales in every session and stock edits in one of them, by either
\* user, interleaved between query and commit, so that a sale races with
\* another sale or with a stock edit; the requests name id 1, the first
\* product's, which no row has until it is created
NextCarrera ==
    \/ \E u \in {"u1"}, sku \in Skus, sa \in Enteros, sm \in {1} :
          CrearProducto(u, sku, sa, sm)
    \/ \E s \in Sesiones, u \in Usuarios, p \in {1}, q \in Cantidades, exito \in BOOLEAN :
          VentaLeer(s, u, p, q, exito)
    \/ \E s \in Sesiones : VentaCommit(s)
    \/ \E s \in SesionesDeStock, u \in Usuarios, p \in {1}, x \in Enteros, exito \in BOOLEAN :
          StockLeer(s, u, p, x, exito)
    \/ \E s \in Sesiones : StockCommit(s)

SpecCarrera == Init /\ [][NextCarrera]_vars

\* the product id that the requests of each session name in SpecDos
ProductoDe == [s \in Sesiones |-> IF s = "s1" THEN 1 ELSE 2]

\* concurrent requests on two products of one owner: the sales of product 1
\* run in one session, the stock edits of product 2 in the other, by either
\* user, and the two interleave between query and commit
NextDos ==
    \/ \E u \in {"u1"}, sku \in SkusDuenos, sa \in {0 - 1, MaxStock}, sm \in {0, 1} :
          CrearHasta(Cardinality(IdsDuenos), u, sku, sa, sm)
    \/ \E s \in Sesiones \ SesionesDeStock, u \in Usuarios, q \in Cantidades,
          exito \in BOOLEAN :
          VentaLeer(s, u, ProductoDe[s], q, exito)
    \/ \E s \in Sesiones : VentaCommit(s)
    \/ \E s \in SesionesDeStock, u \in Usuarios, x \in Enteros, exito \in BOOLEAN :
          StockLeer(s, u, ProductoDe[s], x, exito)
    \/ \E s \in Sesiones : StockCommit(s)

SpecDos == Init /\ [][NextDos]_vars

\* requests one at a time on the products of two owners: each creates
\* products, sells them and reads the listings
NextDuenos ==
    \/ \E u \in Usuarios, sku \in SkusDuenos, sa \in {0 - 1, MaxStock}, sm \in {0} :
          CrearHasta(Cardinality(IdsDuenos), u, sku, sa, sm)
    \/ \E u \in Usuarios, p \in IdsDuenos, q \in Cantidades, exito \in BOOLEAN :
          RegistrarVenta(u, p, q, exito)
    \/ \E u \in Usuarios, sk \in Saltos, lim \in Limites, sb \in BOOLEAN :
          ListarProductos(u, sk, lim, sb)
    \/ \E u \in Usuarios, p \in {0} \cup IdsDuenos, sk \in Saltos, lim \in Limites :
          ListarVentas(u, p, sk, lim)
    \/ \E u \in Usuarios, v \in 1..(MaxSales + 1) : ObtenerVenta(u, v)

SpecDuenos == Init /\ [][NextDuenos]_vars

\* ------------------------------------------- helpers of the properties
\* the units of a product in the committed Sale rows
RECURSIVE Vendido(_, _)
Vendido(ventas, producto_id) ==
    IF ventas = <<>> THEN 0
    ELSE (IF Head(ventas).producto_id = producto_id THEN Head(ventas).cantidad ELSE 0)
         + Vendido(Tail(ventas), producto_id)

\* producto_id names a row of usuario
Propio(usuario, producto_id) ==
    producto_id \in DOMAIN products /\ products[producto_id].usuario_id = usuario

\* the stock and the flag of every product are as before the step
SinEfecto ==
    /\ DOMAIN products' = DOMAIN products
    /\ \A p \in DOMAIN products :
          /\ products'[p].stock_actual = products[p].stock_actual
          /\ products'[p].alerta_enviada = products[p].alerta_enviada

\* -------------------------------------------------------------- properties
\* C1: after every committed operation of any sequence of crear_producto,
\* registrar_venta, actualizar_stock and actualizar_producto, every product has
\* stock_actual >= 0; an operation that would make the stock negative (a sale
\* of more than the stock, a negative stock in a body) never goes through, and
\* an operation that is rejected leaves products and sales as they were.
C1_NoNegativo ==
    /\ [](\A p \in DOMAIN products : products[p].stock_actual >= 0)
    /\ [][/\ last'.result # "OK" => UNCHANGED <<products, sales>>
          /\ (last'.op = "venta" /\ last'.result = "OK") =>
                \A u \in Usuarios, p \in Ids, q \in Cantidades, e \in BOOLEAN :
                   ~(Propio(u, p) /\ products[p].stock_actual - q < 0
                     /\ RegistrarVenta(u, p, q, e))
          /\ (last'.op = "stock" /\ last'.result = "OK") =>
                \A u \in Usuarios, p \in Ids, x \in Enteros, e \in BOOLEAN :
                   ~(x < 0 /\ ActualizarStock(u, p, x, e))
          /\ (last'.op = "producto" /\ last'.result = "OK") =>
                \A u \in Usuarios, p \in Ids, d \in UpdateData :
                   ~("stock_actual" \in DOMAIN d /\ d["stock_actual"] < 0
                     /\ ActualizarProducto(u, p, d))
          /\ (last'.op = "crear" /\ last'.result = "OK") =>
                \A u \in Usuarios, sku \in Skus, sa \in Enteros, sm \in Enteros :
                   ~(sa < 0 /\ CrearProducto(u, sku, sa, sm))]_vars

\* a sale of more than the stock was refused, after an earlier sale went through
C1_Witness ==
    /\ last.op = "venta" /\ last.result = "InsufficientStock"
    /\ Len(sales) > 0
    /\ \E p \in DOMAIN products : products[p].stock_actual = 0

\* C4: a registrar_venta that fails validation (no such product, a product of
\* another owner, or more units than the stock) creates no Sale row, makes no
\* notification attempt, and leaves stock_actual and alerta_enviada of every
\* product unchanged.
C4_VentaFallidaSinEfecto ==
    [][last'.op = "venta" =>
          \A u \in Usuarios, p \in Ids, q \in Cantidades, e \in BOOLEAN :
             (/\ q > 0
              /\ \/ p \notin DOMAIN products
                 \/ products[p].usuario_id # u
                 \/ products[p].stock_actual < q
              /\ RegistrarVenta(u, p, q, e))
             => /\ last'.result \in {"NotFound", "Forbidden", "InsufficientStock"}
                /\ sales' = sales
                /\ last'.envio = "none"
                /\ SinEfecto]_vars

\* a sale on another owner's product was refused while that product has stock
C4_Witness ==
    /\ last.op = "venta" /\ last.result = "Forbidden"
    /\ \E p \in DOMAIN products : products[p].stock_actual > 0

\* C10: a sale request with cantidad 0 or negative always fails with
\* InvalidQuantity, creates no Sale row and leaves products unchanged, however
\* often it is repeated.
C10_CantidadInvalida ==
    [][last'.op = "venta" =>
          \A u \in Usuarios, p \in Ids, q \in Cantidades, e \in BOOLEAN :
             (q <= 0 /\ RegistrarVenta(u, p, q, e))
             => /\ last'.result = "InvalidQuantity"
                /\ sales' = sales
                /\ products' = products]_vars

\* a sale of a non-positive quantity was refused on a database that has a
\* product in stock
C10_Witness ==
    /\ last.op = "venta" /\ last.result = "InvalidQuantity"
    /\ \E p \in DOMAIN products : products[p].stock_actual > 0

\* C7: when a registrar_venta passes validation and the notification sender
\* reports failure, the Sale row and the stock decrement are still committed,
\* the call returns success, and the returned alerta_enviada is false.
C7_FalloDeAvisoNoRevierte ==
    [][last'.op = "venta" =>
          \A u \in Usuarios, p \in Ids, q \in Cantidades :
             (/\ Propio(u, p) /\ q > 0 /\ q <= products[p].stock_actual
              /\ RegistrarVenta(u, p, q, FALSE))
             => /\ last'.result = "OK"
                /\ sales' = Append(sales, Sale(p, q))
                /\ products'[p].stock_actual = products[p].stock_actual - q
                /\ ~last'.notificado]_vars

\* a sale went through although its alert could not be sent: the row is there,
\* the stock is low and the flag is still false
C7_Witness ==
    /\ last.op = "venta" /\ last.result = "OK" /\ last.envio = "fail"
    /\ ~last.notificado
    /\ Len(sales) > 0
    /\ sales[Len(sales)].producto_id = last.pid
    /\ products[last.pid].stock_actual <= products[last.pid].stock_minimo
    /\ ~products[last.pid].alerta_enviada

\* C8: in registrar_venta the flag goes from false to true only if the sender
\* reported success in that call; if the sender reports failure the flag is
\* false after the sale; and the boolean returned is true exactly when this
\* sale set the flag.
C8_BanderaSoloConExito ==
    [][(last'.op = "venta" /\ last'.result = "OK") =>
          \A u \in Usuarios, p \in Ids, q \in Cantidades, e \in BOOLEAN :
             RegistrarVenta(u, p, q, e)
             => /\ (~products[p].alerta_enviada /\ products'[p].alerta_enviada)
                      => last'.envio = "ok"
                /\ last'.envio = "fail" => ~products'[p].alerta_enviada
                /\ last'.notificado
                      <=> (~products[p].alerta_enviada /\ products'[p].alerta_enviada)]_vars

\* a sale whose alert was sent set the flag and returned true
C8_Witness ==
    /\ last.op = "venta" /\ last.result = "OK" /\ last.envio = "ok"
    /\ last.notificado
    /\ products[last.pid].alerta_enviada
    /\ products[last.pid].stock_actual <= products[last.pid].stock_minimo

\* C9 (as claimed): in actualizar_stock, when the new stock is at or below
\* stock_minimo, the flag was false and the sender reports failure, the stock
\* edit commits and alerta_enviada stays false.
C9_StockFalloDeAviso ==
    [][last'.op = "stock" =>
          \A u \in Usuarios, p \in Ids, x \in Enteros :
             (/\ Propio(u, p) /\ x >= 0 /\ x <= products[p].stock_minimo
              /\ ~products[p].alerta_enviada
              /\ ActualizarStock(u, p, x, FALSE))
             => /\ products'[p].stock_actual = x
                /\ ~products'[p].alerta_enviada]_vars

C2_UnaSolaVentaGana ==
    \A s1 \in Sesiones, s2 \in Sesiones :
       (/\ s1 # s2
        /\ ses[s1].pc = "fin" /\ ses[s2].pc = "fin"
        /\ ses[s1].pid = ses[s2].pid
        /\ ses[s1].pid \in DOMAIN products
        /\ ses[s1].leido.stock_actual = ses[s2].leido.stock_actual
        /\ ses[s1].cantidad + ses[s2].cantidad > ses[s1].leido.stock_actual)
       => ~(ses[s1].result = "OK" /\ ses[s2].result = "OK")

\* C3 (as claimed): while a product is only sold, every commit keeps
\* stock_actual + (units in its committed Sale rows) unchanged, so the sum
\* stays at the initial stock.
C3_Conservacion ==
    [][\A p \in DOMAIN products \cap DOMAIN products' :
          products'[p].stock_actual + Vendido(sales', p)
             = products[p].stock_actual + Vendido(sales, p)]_vars

\* an id of ids that no row has, as a request for a missing product names it
Ausente(ids) == CHOOSE i \in ids : i \notin DOMAIN products

\* producto_id names a row of another user than usuario
Ajeno(usuario, producto_id) ==
    producto_id \in DOMAIN products /\ products[producto_id].usuario_id # usuario

\* the stock of p is at or below its threshold in the table tabla
Bajo(tabla, p) == tabla[p].stock_actual <= tabla[p].stock_minimo

\* C11 (as claimed): a registrar_venta on an existing product of another user
\* returns NotFound, the very response of the same request on a product id
\* that does not exist.
C11_VentaAjenaNoEncontrada ==
    [][last'.op = "venta" =>
          \A u \in Usuarios, p \in Ids, q \in Cantidades, e \in BOOLEAN :
             (q > 0 /\ Ajeno(u, p) /\ RegistrarVenta(u, p, q, e))
             => /\ last'.result = "NotFound"
                /\ RegistrarVenta(u, Ausente(Ids), q, e)]_vars

\* C12: obtener_producto (GET), actualizar_stock, actualizar_producto and
\* eliminar_producto on a product of another user answer exactly as the same
\* request on an id that does not exist, which is NotFound when the body is
\* valid, and leave the table products (stock_actual, stock_minimo,
\* alerta_enviada and the existence of every row) unchanged: in no reachable
\* state can such a request take a step that does otherwise.
C12_ProductoAjenoNoEncontrado ==
    \A u \in Usuarios, p \in Ids :
       Ajeno(u, p) =>
          /\ ~ENABLED (/\ ObtenerProducto(u, p)
                       /\ ~(/\ last'.result = "NotFound"
                            /\ ObtenerProducto(u, Ausente(Ids))
                            /\ products' = products))
          /\ \A x \in Enteros, e \in BOOLEAN :
                ~ENABLED (/\ ActualizarStock(u, p, x, e)
                          /\ ~(/\ x >= 0 => last'.result = "NotFound"
                               /\ last'.envio = "none"
                               /\ ActualizarStock(u, Ausente(Ids), x, e)
                               /\ products' = products))
          /\ \A d \in UpdateData :
                ~ENABLED (/\ ActualizarProducto(u, p, d)
                          /\ ~(/\ (\A f \in DOMAIN d : d[f] >= 0)
                                     => last'.result = "NotFound"
                               /\ ActualizarProducto(u, Ausente(Ids), d)
                               /\ products' = products))
          /\ ~ENABLED (/\ EliminarProducto(u, p)
                       /\ ~(/\ last'.result = "NotFound"
                            /\ EliminarProducto(u, Ausente(Ids))
                            /\ products' = products))

\* a DELETE was answered NotFound while the table holds a product that has
\* stock and an alert flag set
C12_Witness ==
    /\ last.op = "eliminar" /\ last.result = "NotFound"
    /\ \E p \in DOMAIN products :
          products[p].stock_actual > 0 /\ products[p].alerta_enviada

\* C14 (as claimed): in every reachable state, alerta_enviada = true implies
\* stock_actual <= stock_minimo.
C14_BanderaImplicaBajo ==
    \A p \in DOMAIN products : products[p].alerta_enviada => Bajo(products, p)

\* C20: no operation changes or deletes a committed Sale row: after every step
\* the table sales still has every row it had, with the same id, the same
\* producto_id and the same cantidad.
C20_VentasSoloCrecen ==
    [][/\ Len(sales') >= Len(sales)
       /\ \A i \in 1..Len(sales) : sales'[i] = sales[i]]_vars

\* a DELETE of a product that has sales was tried, and the sales are there
C20_Witness ==
    /\ last.op = "eliminar" /\ last.result = "ServerError"
    /\ Len(sales) > 0
    /\ \A i \in 1..Len(sales) : sales[i].producto_id \in DOMAIN products

\* the step is a registrar_venta (venta) or an actualizar_stock (stock) that
\* went through; last'.pid is then the product it changed
Hecho(op) == last'.op = op /\ last'.result = "OK"

\* C15 (as claimed): through crear_producto, registrar_venta and
\* actualizar_stock, a product comes to have stock_actual <= stock_minimo with
\* alerta_enviada false only by a step whose notification attempt failed; so
\* while every attempt succeeds, every product at or below its threshold has
\* the flag set.
C15_SinBajoDesarmado ==
    [][\A p \in DOMAIN products' :
          (/\ Bajo(products', p) /\ ~products'[p].alerta_enviada
           /\ ~(/\ p \in DOMAIN products
                /\ Bajo(products, p) /\ ~products[p].alerta_enviada))
          => last'.envio = "fail"]_vars

\* C16 (as claimed): a registrar_venta or an actualizar_stock whose stock is at
\* or below stock_minimo both before and after it makes no notification
\* attempt and does not change alerta_enviada, whatever the flag is.
C16_SinCambioSinAviso ==
    [][(Hecho("venta") \/ Hecho("stock")) =>
          LET p == last'.pid
          IN  (Bajo(products, p) /\ Bajo(products', p))
              => /\ last'.envio = "none"
                 /\ products'[p].alerta_enviada = products[p].alerta_enviada]_vars

\* C16 (amended): a registrar_venta or an actualizar_stock whose stock is at or
\* below stock_minimo both before and after it, on a product whose
\* alerta_enviada is true, makes no notification attempt and leaves the flag
\* true; on a product whose flag is false it does make an attempt: the
\* decision is taken from the stored flag.
C16_SinCambioConBandera ==
    [][(Hecho("venta") \/ Hecho("stock")) =>
          LET p == last'.pid
          IN  (Bajo(products, p) /\ Bajo(products', p))
              => IF products[p].alerta_enviada
                 THEN last'.envio = "none" /\ products'[p].alerta_enviada
                 ELSE last'.envio # "none"]_vars

\* a sale of a product that was already at or below its threshold with the
\* flag set went through and sent nothing
C16_Witness ==
    /\ last.op = "venta" /\ last.result = "OK" /\ last.envio = "none"
    /\ Len(sales) > 0
    /\ sales[Len(sales)].producto_id = last.pid
    /\ LET prod == products[last.pid]
       IN  /\ prod.alerta_enviada
           /\ prod.stock_actual + sales[Len(sales)].cantidad <= prod.stock_minimo

\* C17: a registrar_venta whose notification attempt failed leaves the stock
\* at or below stock_minimo with alerta_enviada false; from such a state the
\* next registrar_venta or actualizar_stock that leaves the stock at or below
\* stock_minimo makes a new attempt; an attempt that succeeds sets the flag;
\* and while the flag is set and the stock stays at or below stock_minimo, the
\* flag stays set and no registrar_venta or actualizar_stock makes an attempt.
C17_ReintentoTrasFallo ==
    [][/\ (Hecho("venta") /\ last'.envio = "fail") =>
             /\ Bajo(products', last'.pid)
             /\ ~products'[last'.pid].alerta_enviada
       /\ (Hecho("venta") \/ Hecho("stock")) =>
             LET p == last'.pid
             IN  /\ (/\ Bajo(products, p) /\ ~products[p].alerta_enviada
                     /\ Bajo(products', p))
                    => last'.envio # "none"
                 /\ last'.envio = "ok" => products'[p].alerta_enviada
                 /\ (/\ Bajo(products, p) /\ products[p].alerta_enviada
                     /\ Bajo(products', p))
                    => last'.envio = "none"
       /\ \A p \in DOMAIN products \cap DOMAIN products' :
             (products[p].alerta_enviada /\ Bajo(products', p))
             => products'[p].alerta_enviada]_vars

\* two sales of one product: the first took the stock to the threshold or
\* below, the second was made there and its alert was sent, so the flag was
\* still false after the first
C17_Witness ==
    /\ last.op = "venta" /\ last.result = "OK" /\ last.envio = "ok"
    /\ Len(sales) = 2
    /\ sales[1].producto_id = last.pid /\ sales[2].producto_id = last.pid
    /\ LET prod == products[last.pid]
       IN  /\ prod.alerta_enviada
           /\ prod.stock_actual + sales[2].cantidad <= prod.stock_minimo
           /\ prod.stock_actual + sales[2].cantidad + sales[1].cantidad > prod.stock_minimo

\* C18 (as claimed): in any reachable state, a registrar_venta or an
\* actualizar_stock that takes the stock from above stock_minimo to at or
\* below it makes a notification attempt, and one that takes it from at or
\* below stock_minimo to above it clears the flag without an attempt.
C18_TodoCruceAvisa ==
    [][(Hecho("venta") \/ Hecho("stock")) =>
          LET p == last'.pid
          IN  /\ (~Bajo(products, p) /\ Bajo(products', p))
                 => last'.envio # "none"
              /\ (Bajo(products, p) /\ ~Bajo(products', p))
                 => /\ ~products'[p].alerta_enviada
                    /\ last'.envio = "none"]_vars

\* the rows of products that belong to usuario
SoloDe(usuario) ==
    [p \in {x \in DOMAIN products : products[x].usuario_id = usuario} |-> products[p]]

\* C13: listar_productos(user) returns only products whose usuario_id is that
\* user, listar_ventas and obtener_venta return only sales of that user's
\* products, and each result is the one the same request gives on a database
\* that holds that user's products alone; a sale of another user's product is
\* answered by obtener_venta as a sale id that does not exist. In no reachable
\* state can a read take a step that does otherwise. (A read changes nothing
\* but last and reads nothing of it, so every database a read can meet is met
\* in the state that a create or a sale left, and the reads are examined there.)
C13_SinVisibilidadCruzada ==
    last.op \in {"none", "crear", "venta"} => \A u \in Usuarios :
       /\ \A sk \in Saltos, lim \in Limites, sb \in BOOLEAN :
             ~ENABLED (/\ ListarProductos(u, sk, lim, sb)
                       /\ ~(/\ \A p \in last'.filas : products[p].usuario_id = u
                            /\ last'.filas
                                  \in listar_productos(SoloDe(u), u, sk, lim, sb)))
       /\ \A p \in {0} \cup IdsDuenos, sk \in Saltos, lim \in Limites :
             ~ENABLED (/\ ListarVentas(u, p, sk, lim)
                       /\ ~(/\ \A i \in 1..Len(last'.ventas) :
                                  products[sales[last'.ventas[i]].producto_id].usuario_id = u
                            /\ last'.ventas
                                  = listar_ventas(sales, SoloDe(u), u, p, sk, lim)))
       /\ \A v \in 1..(MaxSales + 1) :
             ~ENABLED (/\ ObtenerVenta(u, v)
                       /\ ~(/\ last'.result = "OK"
                                  => products[sales[v].producto_id].usuario_id = u
                            /\ (v <= Len(sales) /\ Ajeno(u, sales[v].producto_id))
                                  => /\ last'.result = "NotFound"
                                     /\ ObtenerVenta(u, Len(sales) + 1)))

\* two owners have a product each, each product has a sale, and a listing of
\* products returned one row
C13_Witness ==
    /\ last.op = "listar" /\ Cardinality(last.filas) = 1
    /\ DOMAIN products = {1, 2}
    /\ products[1].usuario_id # products[2].usuario_id
    /\ Len(sales) = 2
    /\ sales[1].producto_id # sales[2].producto_id

\* C19 (as claimed): crear_producto with a valid body fails with SkuConflict
\* exactly when the same owner already has a product with that SKU, and a
\* failed create leaves the table products as it was.
C19_SkuPorDueno ==
    [][last'.op = "crear" =>
          \A u \in Usuarios, sku \in SkusDuenos, sa \in {0 - 1, MaxStock}, sm \in {0} :
             (/\ ProductCreate(sa, sm)
              /\ CrearHasta(Cardinality(IdsDuenos), u, sku, sa, sm))
             => /\ last'.result = "SkuConflict"
                   <=> \E p \in DOMAIN products :
                          products[p].sku = sku /\ products[p].usuario_id = u
                /\ last'.result # "OK" => products' = products]_vars

\* C24: a registrar_venta of q units, run alone on the caller's own product
\* with stock s >= q, adds exactly one Sale row, with that product id and
\* quantity q, sets stock_actual to s - q and answers stock_restante = s - q.
C24_ResultadoDeVenta ==
    [][Hecho("venta") =>
          \A u \in Usuarios, q \in Cantidades, e \in BOOLEAN :
             (/\ Propio(u, last'.pid)
              /\ q > 0
              /\ products[last'.pid].stock_actual >= q
              /\ RegistrarVenta(u, last'.pid, q, e))
             => /\ sales' = Append(sales, [producto_id |-> last'.pid, cantidad |-> q])
                /\ products'[last'.pid].stock_actual = products[last'.pid].stock_actual - q
                /\ last'.stock_restante = products[last'.pid].stock_actual - q]_vars

\* the second sale of a product went through and took its last units
C24_Witness ==
    /\ last.op = "venta" /\ last.result = "OK"
    /\ Len(sales) = 2
    /\ sales[2].producto_id = last.pid
    /\ last.stock_restante = 0
    /\ sales[1].cantidad + sales[2].cantidad = MaxStock

\* C25: for the caller's own product and a quantity q > 0, registrar_venta
\* fails with InsufficientStock if and only if q is more than the current
\* stock_actual; a sale of exactly the whole stock goes through and leaves
\* stock_actual = 0.
C25_LimiteDeStock ==
    [][last'.op = "venta" =>
          \A u \in Usuarios, p \in Ids, q \in Cantidades, e \in BOOLEAN :
             (Propio(u, p) /\ q > 0 /\ RegistrarVenta(u, p, q, e))
             => /\ (last'.result = "InsufficientStock") <=> (q > products[p].stock_actual)
                /\ q = products[p].stock_actual =>
                      /\ last'.result = "OK"
                      /\ products'[p].stock_actual = 0]_vars

\* one sale took the whole stock of a product
C25_Witness ==
    /\ last.op = "venta" /\ last.result = "OK"
    /\ Len(sales) = 1
    /\ sales[1].cantidad = MaxStock
    /\ products[last.pid].stock_actual = 0

\* C26: the threshold is inclusive. A registrar_venta or actualizar_stock that
\* takes a product with the flag false from above stock_minimo to exactly
\* stock_minimo makes a notification attempt; an actualizar_stock to exactly
\* stock_minimo leaves a set alerta_enviada set; and whenever one of the two
\* resets the flag, the new stock is strictly greater than stock_minimo.
C26_UmbralInclusivo ==
    [][(Hecho("venta") \/ Hecho("stock")) =>
          LET antes == products[last'.pid]
              despues == products'[last'.pid]
          IN  /\ (/\ antes.stock_actual > antes.stock_minimo
                   /\ ~antes.alerta_enviada
                   /\ despues.stock_actual = despues.stock_minimo)
                  => last'.envio # "none"
              /\ (/\ Hecho("stock")
                   /\ antes.alerta_enviada
                   /\ despues.stock_actual = despues.stock_minimo)
                  => despues.alerta_enviada
              /\ (antes.alerta_enviada /\ ~despues.alerta_enviada)
                  => despues.stock_actual > despues.stock_minimo]_vars

\* a sale left the stock exactly on a positive threshold and the alert was
\* attempted
C26_Witness ==
    /\ last.op = "venta" /\ last.result = "OK"
    /\ last.envio # "none"
    /\ products[last.pid].stock_minimo > 0
    /\ products[last.pid].stock_actual = products[last.pid].stock_minimo

\* C30: registrar_venta checks the owner before the stock. A sale request on
\* a product of another user never answers InsufficientStock and never
\* creates a Sale, whatever the quantity and the stock of that product: the
\* answer is fixed by the request alone, the same for every stock value.
C30_DuenoAntesDeStock ==
    [][last'.op = "venta" =>
          \A u \in Usuarios, p \in Ids, q \in Cantidades, e \in BOOLEAN :
             (/\ p \in DOMAIN products
              /\ products[p].usuario_id # u
              /\ RegistrarVenta(u, p, q, e))
             => /\ last'.result \notin {"InsufficientStock", "OK"}
                /\ sales' = sales
                /\ products' = products
                /\ last' = Respuesta("venta", 0, IF q > 0 THEN "Forbidden"
                                                          ELSE "InvalidQuantity")]_vars

\* a sale on another owner's product was refused as forbidden while that
\* product has no stock at all
C30_Witness ==
    /\ last.op = "venta" /\ last.result = "Forbidden"
    /\ products # <<>>
    /\ \A p \in DOMAIN products : products[p].stock_actual = 0

\* C27: an import row with actualizar_existentes = false never modifies an
\* existing product: every product is after the row as it was before, a row
\* whose SKU the importing user already has is answered with an error, and a
\* product is created only for a SKU that no product has. (In every state, no
\* such row can be imported with another outcome.)
C27_ImportarSinActualizar ==
    \A u \in Usuarios, sku \in Skus, sa \in Enteros, sm \in Enteros :
       ~ENABLED (/\ ImportarFila(u, sku, sa, sm, FALSE)
                 /\ ~(/\ \A p \in DOMAIN products :
                            p \in DOMAIN products' /\ products'[p] = products[p]
                      /\ (\E p \in DOMAIN products :
                             products[p].sku = sku /\ products[p].usuario_id = u)
                         => last'.result # "OK" /\ products' = products
                      /\ DOMAIN products' # DOMAIN products => SkuLibre(products, sku)))

\* an import row was refused for its SKU while the product of that SKU is
\* low with its flag set
C27_Witness ==
    /\ last.op = "importar" /\ last.result = "SkuConflict"
    /\ \E p \in DOMAIN products :
          products[p].alerta_enviada /\ products[p].stock_actual <= products[p].stock_minimo

\* C28: crear_producto, actualizar_producto, eliminar_producto and the rows of
\* an import never make a notification attempt and never change
\* alerta_enviada from false to true, even when they leave stock_actual at or
\* below stock_minimo: a product they create has the flag false, and a product
\* they leave with the flag true had it true before.
C28_SoloVentaYStockArman ==
    [][last'.op \in {"crear", "producto", "eliminar", "importar"} =>
          /\ last'.envio = "none"
          /\ ~last'.notificado
          /\ \A p \in DOMAIN products' :
                products'[p].alerta_enviada =>
                   p \in DOMAIN products /\ products[p].alerta_enviada]_vars

\* an import row overwrote a product and left it low with the flag false
C28_Witness ==
    /\ last.op = "importar" /\ last.result = "OK"
    /\ Len(sales) > 0
    /\ last.pid \in DOMAIN products
    /\ products[last.pid].stock_actual <= products[last.pid].stock_minimo
    /\ ~products[last.pid].alerta_enviada

\* C21 (as claimed): a registrar_venta of q units and an actualizar_stock to x
\* on the same product serialize on the product row. Once both have
\* committed, the one sale and the latest stock edit, stock_actual is the
\* result of one of the two serial orders: x (the sale first) or x - q (the
\* edit first, q <= x), never s - q computed from a stock s read before the
\* edit.
C21_VentaYEdicionEnSerie ==
    \A s1 \in Sesiones, s2 \in Sesiones :
       (/\ ses[s1].pc = "fin" /\ ses[s1].op = "venta" /\ ses[s1].result = "OK"
        /\ ses[s2].pc = "fin" /\ ses[s2].op = "stock" /\ ses[s2].result = "OK"
        /\ ses[s1].pid = ses[s2].pid
        /\ ses[s1].pid \in DOMAIN products
        /\ Len(sales) = 1)
       => LET x == ses[s2].enmem.stock_actual
              q == ses[s1].cantidad
          IN  \/ products[ses[s1].pid].stock_actual = x
              \/ q <= x /\ products[ses[s1].pid].stock_actual = x - q

\* C29: in every interleaving of concurrent registrar_venta and
\* actualizar_stock calls on a product, each reading the row and later writing
\* back the value it computed from its own read, the committed stock_actual is
\* never negative: the value a session is about to write is never negative
\* (read_stock - q with q <= read_stock for a sale, a body value >= 0 for an
\* edit), and so is every committed stock.
C29_NoNegativoEnCarrera ==
    /\ \A p \in DOMAIN products : products[p].stock_actual >= 0
    /\ \A s \in Sesiones :
          ses[s].pc = "commit" =>
             /\ ses[s].enmem.stock_actual >= 0
             /\ ses[s].op = "venta" =>
                   ses[s].enmem.stock_actual = ses[s].leido.stock_actual - ses[s].cantidad

\* a sale that read the last unit committed after a concurrent stock edit had
\* restocked the product: the stock is 0, not negative
C29_Witness ==
    \E s1 \in Sesiones, s2 \in Sesiones :
       /\ ses[s1].pc = "fin" /\ ses[s1].op = "venta" /\ ses[s1].result = "OK"
       /\ ses[s2].pc = "fin" /\ ses[s2].op = "stock" /\ ses[s2].result = "OK"
       /\ ses[s1].pid = ses[s2].pid
       /\ Len(sales) = 1
       /\ ses[s2].enmem.stock_actual = MaxStock
       /\ ses[s1].leido.stock_actual = ses[s1].cantidad
       /\ products[ses[s1].pid].stock_actual = 0

\* C23 (as claimed): once per crossing under concurrency. Of two
\* registrar_venta calls that both read the product above stock_minimo with
\* alerta_enviada false and both leave it at or below stock_minimo, at most
\* one makes a notification attempt.
C23_UnAvisoPorCruceEnCarrera ==
    \A s1 \in Sesiones, s2 \in Sesiones :
       (/\ s1 # s2
        /\ ses[s1].pc = "fin" /\ ses[s1].op = "venta" /\ ses[s1].result = "OK"
        /\ ses[s2].pc = "fin" /\ ses[s2].op = "venta" /\ ses[s2].result = "OK"
        /\ ses[s1].pid = ses[s2].pid
        /\ \A s \in {s1, s2} :
              /\ ses[s].leido.stock_actual > ses[s].leido.stock_minimo
              /\ ~ses[s].leido.alerta_enviada
              /\ ses[s].enmem.stock_actual <= ses[s].enmem.stock_minimo)
       => ~(ses[s1].envio # "none" /\ ses[s2].envio # "none")

\* C22: operations on different products are independent. When the sales of
\* a product A interleave in any way with the stock edits of a product B,
\* the commit of an operation on either leaves every other product as it was
\* (stock_actual, stock_minimo and alerta_enviada), finds its own product as
\* the operation read it, and leaves it as the operation computed it: the
\* state the product would reach if its operations ran alone.
C22_ProductosIndependientes ==
    [][\A s \in Sesiones :
          (ses[s].pc = "commit" /\ ses'[s].pc = "fin") =>
             /\ \A b \in DOMAIN products \ {ses[s].pid} : products'[b] = products[b]
             /\ products[ses[s].pid] = ses[s].leido
             /\ products'[ses[s].pid] = ses[s].enmem]_vars

\* a stock edit of product 2 was committed while a sale of product 1 is
\* between its query and its commit
C22_Witness ==
    /\ ses["s1"].pc = "commit" /\ ses["s1"].op = "venta" /\ ses["s1"].pid = 1
    /\ ses["s2"].pc = "fin" /\ ses["s2"].op = "stock" /\ ses["s2"].result = "OK"
    /\ ses["s2"].pid = 2
    /\ ses["s2"].enmem.stock_actual # ses["s2"].leido.stock_actual
    /\ products[2] = ses["s2"].enmem
    /\ products[1] = ses["s1"].leido

====
